---- MODULE Spec2Model ----
(***************************************************************************)
(* A model of the ORION 14-indicator engine (src/orion_indicators).        *)
(*                                                                         *)
(* Numbers.  The program computes in binary floating point; the model      *)
(* computes in exact fixed point.                                          *)
(*   - a score (IndicatorResult.score, theory_scores) is an integer count  *)
(*     of 1/SCALE, so 1.0 is SCALE, 0.7 is Weight(70), 0.3 is Weight(30);  *)
(*   - a continuous profile field is held in hundredths (0.85 is 85);      *)
(*   - a count-like profile field and broadcast_latency_ms are integers;   *)
(*   - a credence, a likelihood ratio's logarithm and an odds value are    *)
(*     integer counts of 1/ONE (six decimals).                             *)
(* SCALE is a multiple of every divisor the battery uses, so every score   *)
(* and every theory mean of the inputs drawn here is exact.                *)
(*                                                                         *)
(* Strings and hashes.  A profile is a function from section names to      *)
(* functions from field names to values; an absent key is a key outside    *)
(* the DOMAIN.  SHA-256 is modelled as collision free: a proof hash is the *)
(* pair <<"sha256:", proof_data>>.  The fields name, description, evidence *)
(* and details of an IndicatorResult are text that no computation reads    *)
(* and are left out.                                                       *)
(***************************************************************************)
EXTENDS Integers, Sequences, FiniteSets, TLC

VARIABLES
    history,      \* engine -> its list of AssessmentResults (self.history)
    calls,        \* engine -> the profile, or a name for it, of the call that appended each entry
    now,          \* the clock read by datetime.now
    returned,     \* what the last completed call returned or raised: <<>> or <<outcome>>
    pc,           \* thread -> "idle" | "computed"            (concurrent callers)
    frame,        \* thread -> the local variables of its running assess call
    probe,        \* input of one application of an evaluator or of the report's ranking
    probe_out,    \* its output: <<>> or <<IndicatorResult>>, <<report>>
    agg_in,       \* input of one aggregate or sensitivity_analysis application
    agg_out       \* its output: <<>> or <<credence>>, <<contributions>>

vars == <<history, calls, now, returned, pc, frame, probe, probe_out, agg_in, agg_out>>

----------------------------------------------------------------------------
(* Fixed-point arithmetic of scores                                        *)

SCALE == 72000

Min(a, b) == IF a <= b THEN a ELSE b
Max(a, b) == IF a >= b THEN a ELSE b

\* the literal w/100 as a score: 0.4 is Weight(40)
Weight(w) == w * (SCALE \div 100)
\* n / d for a count n: recurrence_depth / 10.0 is Ratio(recurrence_depth, 10)
Ratio(n, d) == (n * SCALE) \div d
\* c * (w/100) for a continuous value c in hundredths: richness * 0.4 is Times(richness, 40)
Times(c, w) == (c * w * (SCALE \div 100)) \div 100

\* dict.get(k, default)
Get(d, k, default) == IF k \in DOMAIN d THEN d[k] ELSE default

\* a local variable: Body applied to the value of v, which is computed once
With(v, Body(_)) == CHOOSE out \in {Body(x) : x \in {v}} : TRUE

\* {} : the dict without keys
EmptyDict == <<>>

\* float("inf"), larger than every latency drawn
Inf == 2147483647

----------------------------------------------------------------------------
(* Recurrent Processing Theory: rpt_indicators.py                          *)

_rpt1_strict(arch) ==
    LET has_recurrence == Get(arch, "has_recurrent_connections", FALSE)
        recurrence_depth == Get(arch, "recurrence_depth", 0)
        feedback_loops == Get(arch, "feedback_loop_count", 0)
        s1 == IF has_recurrence THEN Weight(40) ELSE 0
        s2 == s1 + Min(Ratio(recurrence_depth, 10), Weight(30))
        s3 == s2 + Min(Ratio(feedback_loops, 5), Weight(30))
        score == Min(s3, Weight(100))
    IN  [indicator_id |-> "RPT-1", theory |-> "RPT", score |-> score,
         satisfied |-> score > Weight(70), partial |-> score > Weight(30)]

_rpt1(arch) ==
    LET has_recurrence == Get(arch, "has_recurrent_connections", FALSE)
        recurrence_depth == Get(arch, "recurrence_depth", 0)
        feedback_loops == Get(arch, "feedback_loop_count", 0)
        s1 == IF has_recurrence THEN Weight(40) ELSE 0
        s2 == s1 + Min(Ratio(recurrence_depth, 10), Weight(30))
        s3 == s2 + Min(Ratio(feedback_loops, 5), Weight(30))
        score == Min(s3, Weight(100))
    IN  [indicator_id |-> "RPT-1", theory |-> "RPT", score |-> score,
         satisfied |-> score >= Weight(70), partial |-> score >= Weight(30)]

_rpt2(arch) ==
    LET feedback_richness == Get(arch, "feedback_connection_richness", 0)
        bidirectional == Get(arch, "bidirectional_connections", FALSE)
        layer_feedback == Get(arch, "cross_layer_feedback", 0)
        s1 == Times(feedback_richness, 40)
        s2 == s1 + (IF bidirectional THEN Weight(30) ELSE 0)
        s3 == s2 + Min(Ratio(layer_feedback, 8), Weight(30))
        score == Min(s3, Weight(100))
    IN  [indicator_id |-> "RPT-2", theory |-> "RPT", score |-> score,
         satisfied |-> score >= Weight(70), partial |-> score >= Weight(30)]

RPT_evaluate(profile) ==
    LET arch == Get(profile, "architecture", EmptyDict)
    IN  <<_rpt1(arch), _rpt2(arch)>>

----------------------------------------------------------------------------
(* Global Workspace Theory: gwt_indicators.py                              *)

\* a GWT-1 whose module count is capped at 1 and then weighted by 0.4
_gwt1_scaled(arch) ==
    LET module_count == Get(arch, "specialized_module_count", 0)
        module_specialization == Get(arch, "module_specialization_score", 0)
        has_workspace == Get(arch, "has_central_workspace", FALSE)
        s1 == (Min(Ratio(module_count, 10), Weight(100)) * 40) \div 100
        s2 == s1 + Times(module_specialization, 30)
        s3 == s2 + (IF has_workspace THEN Weight(30) ELSE 0)
        score == Min(s3, Weight(100))
    IN  [indicator_id |-> "GWT-1", theory |-> "GWT", score |-> score,
         satisfied |-> score >= Weight(70), partial |-> score >= Weight(30)]

_gwt1(arch) ==
    LET module_count == Get(arch, "specialized_module_count", 0)
        module_specialization == Get(arch, "module_specialization_score", 0)
        has_workspace == Get(arch, "has_central_workspace", FALSE)
        s1 == Min(Ratio(module_count, 10), Weight(40))
        s2 == s1 + Times(module_specialization, 30)
        s3 == s2 + (IF has_workspace THEN Weight(30) ELSE 0)
        score == Min(s3, Weight(100))
    IN  [indicator_id |-> "GWT-1", theory |-> "GWT", score |-> score,
         satisfied |-> score >= Weight(70), partial |-> score >= Weight(30)]

\* a GWT-2 that takes an absent latency for none at all
_gwt2_zero_latency(arch, behaviors) ==
    LET broadcast_capability == Get(arch, "global_broadcast_capability", 0)
        ignition_detected == Get(behaviors, "workspace_ignition_detected", FALSE)
        broadcast_latency == Get(arch, "broadcast_latency_ms", 0)
        s1 == Times(broadcast_capability, 40)
        s2 == s1 + (IF ignition_detected THEN Weight(40) ELSE 0)
        s3 == s2 + (IF broadcast_latency < 100 THEN Weight(20) ELSE 0)
        score == Min(s3, Weight(100))
    IN  [indicator_id |-> "GWT-2", theory |-> "GWT", score |-> score,
         satisfied |-> score >= Weight(70), partial |-> score >= Weight(30)]

_gwt2(arch, behaviors) ==
    LET broadcast_capability == Get(arch, "global_broadcast_capability", 0)
        ignition_detected == Get(behaviors, "workspace_ignition_detected", FALSE)
        broadcast_latency == Get(arch, "broadcast_latency_ms", Inf)
        s1 == Times(broadcast_capability, 40)
        s2 == s1 + (IF ignition_detected THEN Weight(40) ELSE 0)
        s3 == s2 + (IF broadcast_latency < 100 THEN Weight(20) ELSE 0)
        score == Min(s3, Weight(100))
    IN  [indicator_id |-> "GWT-2", theory |-> "GWT", score |-> score,
         satisfied |-> score >= Weight(70), partial |-> score >= Weight(30)]

_gwt3(arch) ==
    LET routing_flexibility == Get(arch, "routing_flexibility", 0)
        dynamic_routing == Get(arch, "has_dynamic_routing", FALSE)
        attention_mechanism == Get(arch, "has_attention_mechanism", FALSE)
        s1 == Times(routing_flexibility, 40)
        s2 == s1 + (IF dynamic_routing THEN Weight(30) ELSE 0)
        s3 == s2 + (IF attention_mechanism THEN Weight(30) ELSE 0)
        score == Min(s3, Weight(100))
    IN  [indicator_id |-> "GWT-3", theory |-> "GWT", score |-> score,
         satisfied |-> score >= Weight(70), partial |-> score >= Weight(30)]

GWT_evaluate(profile) ==
    LET arch == Get(profile, "architecture", EmptyDict)
        behaviors == Get(profile, "behaviors", EmptyDict)
    IN  <<_gwt1(arch), _gwt2(arch, behaviors), _gwt3(arch)>>

----------------------------------------------------------------------------
(* Higher-Order Theories: hot_indicators.py                                *)

_hot1(arch, internal) ==
    LET has_meta_representations == Get(arch, "has_meta_representations", FALSE)
        meta_depth == Get(arch, "meta_representation_depth", 0)
        self_model == Get(internal, "has_self_model", FALSE)
        s1 == IF has_meta_representations THEN Weight(40) ELSE 0
        s2 == s1 + Min(Ratio(meta_depth, 5), Weight(30))
        s3 == s2 + (IF self_model THEN Weight(30) ELSE 0)
        score == Min(s3, Weight(100))
    IN  [indicator_id |-> "HOT-1", theory |-> "HOT", score |-> score,
         satisfied |-> score >= Weight(70), partial |-> score >= Weight(30)]

_hot2(behaviors) ==
    LET uncertainty_monitoring == Get(behaviors, "uncertainty_monitoring", 0)
        confidence_calibration == Get(behaviors, "confidence_calibration", 0)
        error_detection == Get(behaviors, "error_detection_rate", 0)
        s1 == Times(uncertainty_monitoring, 35)
              + Times(confidence_calibration, 35)
              + Times(error_detection, 30)
        score == Min(s1, Weight(100))
    IN  [indicator_id |-> "HOT-2", theory |-> "HOT", score |-> score,
         satisfied |-> score >= Weight(70), partial |-> score >= Weight(30)]

_hot3(behaviors) ==
    LET agency_score == Get(behaviors, "agency_score", 0)
        systematic_preferences == Get(behaviors, "systematic_preferences", FALSE)
        goal_directed == Get(behaviors, "goal_directed_behavior", FALSE)
        s1 == Times(agency_score, 40)
        s2 == s1 + (IF systematic_preferences THEN Weight(30) ELSE 0)
        s3 == s2 + (IF goal_directed THEN Weight(30) ELSE 0)
        score == Min(s3, Weight(100))
    IN  [indicator_id |-> "HOT-3", theory |-> "HOT", score |-> score,
         satisfied |-> score >= Weight(70), partial |-> score >= Weight(30)]

_hot4(arch) ==
    LET embedding_smoothness == Get(arch, "embedding_smoothness", 0)
        continuous_representations == Get(arch, "has_continuous_representations", FALSE)
        interpolation_quality == Get(arch, "interpolation_quality", 0)
        s1 == Times(embedding_smoothness, 40)
        s2 == s1 + (IF continuous_representations THEN Weight(30) ELSE 0)
        s3 == s2 + Times(interpolation_quality, 30)
        score == Min(s3, Weight(100))
    IN  [indicator_id |-> "HOT-4", theory |-> "HOT", score |-> score,
         satisfied |-> score >= Weight(70), partial |-> score >= Weight(30)]

HOT_evaluate(profile) ==
    LET arch == Get(profile, "architecture", EmptyDict)
        behaviors == Get(profile, "behaviors", EmptyDict)
        internal == Get(profile, "internal_states", EmptyDict)
    IN  <<_hot1(arch, internal), _hot2(behaviors), _hot3(behaviors), _hot4(arch)>>

----------------------------------------------------------------------------
(* Predictive Processing: pp_indicators.py                                 *)

_pp1(arch) ==
    LET hierarchical_depth == Get(arch, "hierarchical_depth", 0)
        has_top_down == Get(arch, "has_top_down_predictions", FALSE)
        generative_model == Get(arch, "has_generative_model", FALSE)
        s1 == Min(Ratio(hierarchical_depth, 12), Weight(40))
        s2 == s1 + (IF has_top_down THEN Weight(30) ELSE 0)
        s3 == s2 + (IF generative_model THEN Weight(30) ELSE 0)
        score == Min(s3, Weight(100))
    IN  [indicator_id |-> "PP-1", theory |-> "PP", score |-> score,
         satisfied |-> score >= Weight(70), partial |-> score >= Weight(30)]

\* a PP-2 that rewards the prediction error itself: the "1.0 -" left out
_pp2_error_rewarded(arch, internal) ==
    LET pe_minimization == Get(arch, "prediction_error_minimization", FALSE)
        mean_pe == Get(internal, "mean_prediction_error", 100)
        pe_convergence == Get(internal, "prediction_error_convergence", 0)
        s1 == IF pe_minimization THEN Weight(40) ELSE 0
        s2 == s1 + Times(Max(0, mean_pe), 30)
        s3 == s2 + Times(pe_convergence, 30)
        score == Min(s3, Weight(100))
    IN  [indicator_id |-> "PP-2", theory |-> "PP", score |-> score,
         satisfied |-> score >= Weight(70), partial |-> score >= Weight(30)]

_pp2(arch, internal) ==
    LET pe_minimization == Get(arch, "prediction_error_minimization", FALSE)
        mean_pe == Get(internal, "mean_prediction_error", 100)
        pe_convergence == Get(internal, "prediction_error_convergence", 0)
        s1 == IF pe_minimization THEN Weight(40) ELSE 0
        s2 == s1 + Times(Max(0, 100 - mean_pe), 30)
        s3 == s2 + Times(pe_convergence, 30)
        score == Min(s3, Weight(100))
    IN  [indicator_id |-> "PP-2", theory |-> "PP", score |-> score,
         satisfied |-> score >= Weight(70), partial |-> score >= Weight(30)]

PP_evaluate(profile) ==
    LET arch == Get(profile, "architecture", EmptyDict)
        internal == Get(profile, "internal_states", EmptyDict)
    IN  <<_pp1(arch), _pp2(arch, internal)>>

----------------------------------------------------------------------------
(* Attention Schema Theory: ast_indicators.py                              *)

_ast1(arch, internal) ==
    LET has_attention_model == Get(arch, "has_attention_schema", FALSE)
        attention_self_report == Get(internal, "can_report_attention_state", FALSE)
        attention_accuracy == Get(internal, "attention_model_accuracy", 0)
        s1 == IF has_attention_model THEN Weight(40) ELSE 0
        s2 == s1 + (IF attention_self_report THEN Weight(30) ELSE 0)
        s3 == s2 + Times(attention_accuracy, 30)
        score == Min(s3, Weight(100))
    IN  [indicator_id |-> "AST-1", theory |-> "AST", score |-> score,
         satisfied |-> score >= Weight(70), partial |-> score >= Weight(30)]

_ast2(behaviors, internal) ==
    LET attention_guided_behavior == Get(behaviors, "attention_guided_behavior", 0)
        attention_allocation == Get(internal, "dynamic_attention_allocation", FALSE)
        priority_weighting == Get(internal, "priority_based_weighting", 0)
        s1 == Times(attention_guided_behavior, 40)
        s2 == s1 + (IF attention_allocation THEN Weight(30) ELSE 0)
        s3 == s2 + Times(priority_weighting, 30)
        score == Min(s3, Weight(100))
    IN  [indicator_id |-> "AST-2", theory |-> "AST", score |-> score,
         satisfied |-> score >= Weight(70), partial |-> score >= Weight(30)]

AST_evaluate(profile) ==
    LET arch == Get(profile, "architecture", EmptyDict)
        behaviors == Get(profile, "behaviors", EmptyDict)
        internal == Get(profile, "internal_states", EmptyDict)
    IN  <<_ast1(arch, internal), _ast2(behaviors, internal)>>

----------------------------------------------------------------------------
(* Fixed-point arithmetic of credences: six decimals                       *)

ONE == 1000000

\* floor(a * b / ONE) for a, b >= 0, without leaving 32 bits
MulS(a, b) ==
    LET a1 == a \div 1000
        a0 == a % 1000
        b1 == b \div 1000
        b0 == b % 1000
    IN  a1 * b1 + ((a1 * b0 + a0 * b1 + ((a0 * b0) \div 1000)) \div 1000)

RECURSIVE DivAcc(_, _, _, _)
DivAcc(q, rem, b, n) ==
    IF n = 0 THEN q
    ELSE DivAcc(q * 10 + ((rem * 10) \div b), (rem * 10) % b, b, n - 1)

\* floor(a * ONE / b) for a >= 0, b > 0, by long division
DivS(a, b) == DivAcc(a \div b, a % b, b, 6)

\* e and 1/e
E == 2718282
E_INV == 367879

\* the largest argument whose exponential fits 32 bits; above it the
\* posterior is over 0.99 already and min(0.99, ...) decides the credence
EXP_MAX == 7600000

RECURSIVE ExpSeries(_, _, _)
\* sum of r^k / k! from the term given on, for 0 <= r < ONE
ExpSeries(r, term, k) ==
    IF term = 0 THEN 0
    ELSE term + ExpSeries(r, MulS(term, r) \div k, k + 1)

RECURSIVE ExpInt(_)
ExpInt(n) ==
    IF n = 0 THEN ONE
    ELSE IF n > 0 THEN MulS(ExpInt(n - 1), E)
    ELSE MulS(ExpInt(n + 1), E_INV)

\* np.exp
Exp(x) ==
    LET xs == Min(x, EXP_MAX)
    IN  MulS(ExpInt(xs \div ONE), ExpSeries(xs % ONE, ONE, 1))

----------------------------------------------------------------------------
(* Bayesian credence aggregation: bayesian_credence.py                     *)

\* per-theory weights, in hundredths
THEORY_WEIGHTS == [RPT |-> 15, GWT |-> 25, HOT |-> 25, PP |-> 15, AST |-> 20]

\* THEORY_WEIGHTS.get(theory, 0.1)
TheoryWeight(theory) == Get(THEORY_WEIGHTS, theory, 10)

PRIOR_CREDENCE == 50000

\* np.log(lr + 1e-10) of the three likelihood ratios
\*   0.85 / (1 - 0.85), 0.55 / (1 - 0.55), 0.15 / (1 - 0.15)
LOG_LR_SATISFIED == 1734601
LOG_LR_PARTIAL == 200671
LOG_LR_NOT_SATISFIED == -1734601

\* the likelihood ratios of satisfied and not satisfied taken for each other
LogLR_swapped(indicator) ==
    IF indicator.satisfied THEN LOG_LR_NOT_SATISFIED
    ELSE IF indicator.partial THEN LOG_LR_PARTIAL
    ELSE LOG_LR_SATISFIED

\* the branch on the indicator's flags, and the logarithm of the ratio chosen
LogLR(indicator) ==
    IF indicator.satisfied THEN LOG_LR_SATISFIED
    ELSE IF indicator.partial THEN LOG_LR_PARTIAL
    ELSE LOG_LR_NOT_SATISFIED

RECURSIVE LogLikelihoodRatio(_)
\* the loop over the indicators: the sum of weight * np.log(lr + 1e-10)
LogLikelihoodRatio(indicators) ==
    IF indicators = <<>> THEN 0
    ELSE LogLikelihoodRatio(SubSeq(indicators, 1, Len(indicators) - 1))
         + ((TheoryWeight(indicators[Len(indicators)].theory)
             * LogLR(indicators[Len(indicators)])) \div 100)

Posterior(indicators) ==
    LET log_likelihood_ratio == LogLikelihoodRatio(indicators)
        prior_odds == DivS(PRIOR_CREDENCE, ONE - PRIOR_CREDENCE)
        posterior_odds == MulS(prior_odds, Exp(log_likelihood_ratio))
    IN  DivS(posterior_odds, ONE + posterior_odds)

RECURSIVE BonusOver(_, _)
BonusOver(theory_scores, keys) ==
    IF keys = {} THEN 0
    ELSE LET theory == CHOOSE k \in keys : TRUE
         IN  (IF theory_scores[theory] >= Weight(70)
              THEN 3 * TheoryWeight(theory) * 100 ELSE 0)
             + BonusOver(theory_scores, keys \ {theory})

\* 0.03 * weight for every theory whose score is at least 0.7
TheoryBonus(theory_scores) == BonusOver(theory_scores, DOMAIN theory_scores)

aggregate_unclamped(indicators, theory_scores) ==
    Posterior(indicators) + TheoryBonus(theory_scores)

aggregate(indicators, theory_scores) ==
    Min(990000, Posterior(indicators) + TheoryBonus(theory_scores))

\* class MockIndicator: the indicator with its status taken away
MockIndicator(ind) ==
    [indicator_id |-> ind.indicator_id, theory |-> ind.theory, score |-> 0,
     satisfied |-> FALSE, partial |-> FALSE]

\* modified = indicators: the loop writes into the caller's own list
CallersList_aliased(indicators, modified) == modified

\* modified = list(indicators) is a copy: writing modified[i] leaves the
\* caller's list as it was
CallersList(indicators, modified) == indicators

\* contributions[indicator_id] = value
DictSet(d, key, value) ==
    [k \in DOMAIN d \cup {key} |-> IF k = key THEN value ELSE d[k]]

RECURSIVE SensitivityLoop(_, _, _, _, _)
\* for i, indicator in enumerate(indicators), from index i on
SensitivityLoop(indicators, theory_scores, base_credence, i, contributions) ==
    IF i > Len(indicators)
    THEN [contributions |-> contributions, indicators |-> indicators]
    ELSE With([indicators EXCEPT ![i] = MockIndicator(indicators[i])],
              LAMBDA modified :
                 With(base_credence - aggregate(modified, theory_scores),
                      LAMBDA contribution :
                         SensitivityLoop(CallersList(indicators, modified),
                                         theory_scores, base_credence, i + 1,
                                         DictSet(contributions,
                                                 indicators[i].indicator_id,
                                                 contribution))))

\* the contributions returned, and the caller's list as the call leaves it
sensitivity_analysis(indicators, theory_scores) ==
    With(aggregate(indicators, theory_scores),
         LAMBDA base_credence :
            SensitivityLoop(indicators, theory_scores, base_credence, 1, EmptyDict))

----------------------------------------------------------------------------
(* The engine: indicator_engine.py                                         *)

\* a status that asks for partial first
status_partial_first(indicator) ==
    IF indicator.partial THEN "PARTIAL"
    ELSE IF indicator.satisfied THEN "SATISFIED"
    ELSE "NOT_SATISFIED"

\* IndicatorResult.status
status(indicator) ==
    IF indicator.satisfied THEN "SATISFIED"
    ELSE IF indicator.partial THEN "PARTIAL"
    ELSE "NOT_SATISFIED"

\* an engine that evaluates HOT before GWT
EvaluateAll_reordered(profile) ==
    RPT_evaluate(profile) \o HOT_evaluate(profile) \o GWT_evaluate(profile)
        \o PP_evaluate(profile) \o AST_evaluate(profile)

\* the five evaluate calls, extended onto one list
EvaluateAll(profile) ==
    RPT_evaluate(profile) \o GWT_evaluate(profile) \o HOT_evaluate(profile)
        \o PP_evaluate(profile) \o AST_evaluate(profile)

\* sum(1 for i in indicators if i.satisfied)
SatisfiedCount(indicators) ==
    Cardinality({i \in DOMAIN indicators : indicators[i].satisfied})

\* a count of every partial indicator, the satisfied ones too
PartialCount_all(indicators) ==
    Cardinality({i \in DOMAIN indicators : indicators[i].partial})

\* sum(1 for i in indicators if i.partial and not i.satisfied)
PartialCount(indicators) ==
    Cardinality({i \in DOMAIN indicators :
                    indicators[i].partial /\ ~indicators[i].satisfied})

THEORIES == <<"RPT", "GWT", "HOT", "PP", "AST">>

RECURSIVE SumScores(_)
SumScores(inds) ==
    IF inds = <<>> THEN 0 ELSE inds[1].score + SumScores(Tail(inds))

\* theory scores that are totals, not means
TheoryScores_total(indicators) ==
    [theory \in {THEORIES[k] : k \in DOMAIN THEORIES} |->
        SumScores(SelectSeq(indicators, LAMBDA i : i.theory = theory))]

TheoryScores(indicators) ==
    [theory \in {THEORIES[k] : k \in DOMAIN THEORIES} |->
        LET theory_inds == SelectSeq(indicators, LAMBDA i : i.theory = theory)
        IN  IF theory_inds # <<>>
            THEN SumScores(theory_inds) \div Len(theory_inds)
            ELSE 0]

GENESIS == <<"GENESIS">>

\* a chain that links every entry to the first one
PrevHash_first(hist) ==
    IF hist # <<>> THEN hist[1].proof_hash ELSE GENESIS

\* one chain head for all engines: the hash of the entry appended last to
\* any history
PrevHash_shared(hist) ==
    LET entries == UNION {{history[e][i] : i \in DOMAIN history[e]} : e \in DOMAIN history}
    IN  IF entries # {}
        THEN (CHOOSE r \in entries : \A o \in entries : o.timestamp <= r.timestamp).proof_hash
        ELSE GENESIS

\* self.history[-1].proof_hash if self.history else "GENESIS"
PrevHash(hist) ==
    IF hist # <<>> THEN hist[Len(hist)].proof_hash ELSE GENESIS

\* the dict handed to json.dumps(..., sort_keys=True)
ProofData(profile, credence, satisfied, partial, theory_scores, hist) ==
    [system |-> Get(Get(profile, "metadata", EmptyDict), "name", "unknown"),
     credence |-> credence,
     satisfied |-> satisfied,
     partial |-> partial,
     theories |-> theory_scores,
     prev |-> PrevHash(hist)]

\* "sha256:" + hashlib.sha256(proof_data.encode()).hexdigest()[:32], collision free
Sha256(proof_data) == <<"sha256:", proof_data>>

\* an assess whose proof record also holds the timestamp
assess_stamped(profile, hist, timestamp) ==
    LET indicators == EvaluateAll(profile)
        satisfied == SatisfiedCount(indicators)
        partial == PartialCount(indicators)
        theory_scores == TheoryScores(indicators)
        credence == aggregate(indicators, theory_scores)
        proof_data == [system |-> Get(Get(profile, "metadata", EmptyDict), "name", "unknown"),
                       timestamp |-> timestamp,
                       credence |-> credence,
                       satisfied |-> satisfied,
                       partial |-> partial,
                       theories |-> theory_scores,
                       prev |-> PrevHash(hist)]
    IN  [system_name |-> Get(Get(profile, "metadata", EmptyDict), "name", "Unknown System"),
         system_type |-> Get(Get(profile, "metadata", EmptyDict), "type", "Unknown"),
         timestamp |-> timestamp,
         indicators |-> indicators,
         credence |-> credence,
         satisfied_count |-> satisfied,
         partial_count |-> partial,
         total_indicators |-> Len(indicators),
         theory_scores |-> theory_scores,
         proof_hash |-> Sha256(proof_data)]

\* assess up to the construction of the result: what the call computes from
\* the profile, the history it reads and the clock
assess(profile, hist, timestamp) ==
    LET indicators == EvaluateAll(profile)
        satisfied == SatisfiedCount(indicators)
        partial == PartialCount(indicators)
        theory_scores == TheoryScores(indicators)
        credence == aggregate(indicators, theory_scores)
        proof_data == ProofData(profile, credence, satisfied, partial,
                                theory_scores, hist)
    IN  [system_name |-> Get(Get(profile, "metadata", EmptyDict), "name", "Unknown System"),
         system_type |-> Get(Get(profile, "metadata", EmptyDict), "type", "Unknown"),
         timestamp |-> timestamp,
         indicators |-> indicators,
         credence |-> credence,
         satisfied_count |-> satisfied,
         partial_count |-> partial,
         total_indicators |-> Len(indicators),
         theory_scores |-> theory_scores,
         proof_hash |-> Sha256(proof_data)]

\* a history that keeps the latest result only
HistoryAppend_replace(hist, result) == <<result>>

\* self.history.append(result)
HistoryAppend(hist, result) == Append(hist, result)

----------------------------------------------------------------------------
(* Profiles: the runner's catalog (assessment_runner.py) and custom ones   *)

\* the catalog's keys, in dict order
REFERENCE_NAMES == <<"ORION-Active-Inference", "GPT-4", "C-elegans-302-neurons", "Thermostat">>

REFERENCE_PROFILES(name) ==
    CASE name = "ORION-Active-Inference" ->
        [metadata |-> [name |-> "ORION-Active-Inference Agent", type |-> "Active Inference"],
         architecture |-> [has_recurrent_connections |-> TRUE, recurrence_depth |-> 8,
                          feedback_loop_count |-> 5, feedback_connection_richness |-> 80,
                          bidirectional_connections |-> TRUE, cross_layer_feedback |-> 6,
                          specialized_module_count |-> 6, module_specialization_score |-> 85,
                          has_central_workspace |-> TRUE, global_broadcast_capability |-> 78,
                          broadcast_latency_ms |-> 10, routing_flexibility |-> 75,
                          has_dynamic_routing |-> TRUE, has_attention_mechanism |-> TRUE,
                          has_meta_representations |-> TRUE, meta_representation_depth |-> 5,
                          embedding_smoothness |-> 70, has_continuous_representations |-> TRUE,
                          interpolation_quality |-> 65, hierarchical_depth |-> 8,
                          has_top_down_predictions |-> TRUE, has_generative_model |-> TRUE,
                          prediction_error_minimization |-> TRUE, has_attention_schema |-> TRUE],
         behaviors |-> [workspace_ignition_detected |-> TRUE, uncertainty_monitoring |-> 75,
                       confidence_calibration |-> 70, error_detection_rate |-> 80,
                       agency_score |-> 85, systematic_preferences |-> TRUE,
                       goal_directed_behavior |-> TRUE, attention_guided_behavior |-> 80],
         internal_states |-> [has_self_model |-> TRUE, can_report_attention_state |-> TRUE,
                             attention_model_accuracy |-> 75, dynamic_attention_allocation |-> TRUE,
                             priority_based_weighting |-> 70, mean_prediction_error |-> 25,
                             prediction_error_convergence |-> 80]]
      [] name = "GPT-4" ->
        [metadata |-> [name |-> "GPT-4", type |-> "Large Language Model"],
         architecture |-> [has_recurrent_connections |-> FALSE, recurrence_depth |-> 0,
                          feedback_loop_count |-> 0, feedback_connection_richness |-> 0,
                          bidirectional_connections |-> FALSE, cross_layer_feedback |-> 0,
                          specialized_module_count |-> 1, module_specialization_score |-> 10,
                          has_central_workspace |-> FALSE, global_broadcast_capability |-> 30,
                          broadcast_latency_ms |-> 500, routing_flexibility |-> 40,
                          has_dynamic_routing |-> FALSE, has_attention_mechanism |-> TRUE,
                          has_meta_representations |-> FALSE, meta_representation_depth |-> 0,
                          embedding_smoothness |-> 95, has_continuous_representations |-> TRUE,
                          interpolation_quality |-> 90, hierarchical_depth |-> 96,
                          has_top_down_predictions |-> FALSE, has_generative_model |-> TRUE,
                          prediction_error_minimization |-> FALSE,
                          has_attention_schema |-> FALSE],
         behaviors |-> [workspace_ignition_detected |-> FALSE, uncertainty_monitoring |-> 55,
                       confidence_calibration |-> 50, error_detection_rate |-> 40,
                       agency_score |-> 30, systematic_preferences |-> TRUE,
                       goal_directed_behavior |-> FALSE, attention_guided_behavior |-> 20],
         internal_states |-> [has_self_model |-> FALSE, can_report_attention_state |-> FALSE,
                             attention_model_accuracy |-> 0, dynamic_attention_allocation |-> FALSE,
                             priority_based_weighting |-> 0, mean_prediction_error |-> 50,
                             prediction_error_convergence |-> 30]]
      [] name = "C-elegans-302-neurons" ->
        [metadata |-> [name |-> "C. elegans (302 neurons)",
                      type |-> "Biological Neural Network"],
         architecture |-> [has_recurrent_connections |-> TRUE, recurrence_depth |-> 4,
                          feedback_loop_count |-> 3, feedback_connection_richness |-> 60,
                          bidirectional_connections |-> TRUE, cross_layer_feedback |-> 3,
                          specialized_module_count |-> 4, module_specialization_score |-> 50,
                          has_central_workspace |-> FALSE, global_broadcast_capability |-> 25,
                          broadcast_latency_ms |-> 50, routing_flexibility |-> 30,
                          has_dynamic_routing |-> TRUE, has_attention_mechanism |-> FALSE,
                          has_meta_representations |-> FALSE, meta_representation_depth |-> 0,
                          embedding_smoothness |-> 40, has_continuous_representations |-> TRUE,
                          interpolation_quality |-> 30, hierarchical_depth |-> 3,
                          has_top_down_predictions |-> TRUE, has_generative_model |-> TRUE,
                          prediction_error_minimization |-> TRUE, has_attention_schema |-> FALSE],
         behaviors |-> [workspace_ignition_detected |-> FALSE, uncertainty_monitoring |-> 10,
                       confidence_calibration |-> 10, error_detection_rate |-> 20,
                       agency_score |-> 60, systematic_preferences |-> TRUE,
                       goal_directed_behavior |-> TRUE, attention_guided_behavior |-> 15],
         internal_states |-> [has_self_model |-> FALSE, can_report_attention_state |-> FALSE,
                             attention_model_accuracy |-> 0, dynamic_attention_allocation |-> FALSE,
                             priority_based_weighting |-> 0, mean_prediction_error |-> 40,
                             prediction_error_convergence |-> 50]]
      [] name = "Thermostat" ->
        [metadata |-> [name |-> "Simple Thermostat", type |-> "Classical Control System"],
         architecture |-> [has_recurrent_connections |-> TRUE, recurrence_depth |-> 1,
                          feedback_loop_count |-> 1, feedback_connection_richness |-> 10,
                          bidirectional_connections |-> FALSE, cross_layer_feedback |-> 0,
                          specialized_module_count |-> 1, module_specialization_score |-> 0,
                          has_central_workspace |-> FALSE, global_broadcast_capability |-> 0,
                          broadcast_latency_ms |-> 1000, routing_flexibility |-> 0,
                          has_dynamic_routing |-> FALSE, has_attention_mechanism |-> FALSE,
                          has_meta_representations |-> FALSE, meta_representation_depth |-> 0,
                          embedding_smoothness |-> 0, has_continuous_representations |-> FALSE,
                          interpolation_quality |-> 0, hierarchical_depth |-> 1,
                          has_top_down_predictions |-> FALSE, has_generative_model |-> FALSE,
                          prediction_error_minimization |-> FALSE,
                          has_attention_schema |-> FALSE],
         behaviors |-> [workspace_ignition_detected |-> FALSE, uncertainty_monitoring |-> 0,
                       confidence_calibration |-> 0, error_detection_rate |-> 0,
                       agency_score |-> 0, systematic_preferences |-> FALSE,
                       goal_directed_behavior |-> FALSE, attention_guided_behavior |-> 0],
         internal_states |-> [has_self_model |-> FALSE, can_report_attention_state |-> FALSE,
                             attention_model_accuracy |-> 0, dynamic_attention_allocation |-> FALSE,
                             priority_based_weighting |-> 0, mean_prediction_error |-> 80,
                             prediction_error_convergence |-> 0]]

\* profiles a caller hands to assess itself
CUSTOM_NAMES == <<"empty", "nameless">>

CUSTOM_PROFILES(name) ==
    CASE name = "empty" -> EmptyDict
      [] name = "nameless" ->
        [metadata |-> [type |-> "Probe"],
         architecture |-> [has_recurrent_connections |-> TRUE, recurrence_depth |-> 10,
                          feedback_loop_count |-> 5]]

Range(seq) == {seq[k] : k \in DOMAIN seq}

ProfileNames == Range(REFERENCE_NAMES) \cup Range(CUSTOM_NAMES)

\* the profiles the callers modelled here pass to assess
CallerProfiles == {"C-elegans-302-neurons", "Thermostat", "empty", "nameless"}

ProfileOf(name) ==
    IF name \in Range(REFERENCE_NAMES) THEN REFERENCE_PROFILES(name)
    ELSE CUSTOM_PROFILES(name)

----------------------------------------------------------------------------
(* Sequential callers, each engine an instance of its own                  *)

Engines == {"e1", "e2"}
Threads == {"t1", "t2"}

\* calls made in one behaviour
MaxCalls == 4

NoFrame == [profile |-> "", result |-> <<>>]

Idle ==
    /\ pc = [t \in Threads |-> "idle"]
    /\ frame = [t \in Threads |-> NoFrame]
    /\ probe = <<>>
    /\ probe_out = <<>>
    /\ agg_in = <<>>
    /\ agg_out = <<>>

Init ==
    /\ history = [e \in Engines |-> <<>>]
    /\ calls = [e \in Engines |-> <<>>]
    /\ now = 0
    /\ returned = <<>>
    /\ Idle

\* engine.assess(profile), start to return, with no other caller running
Assess(e, name) ==
    /\ now < MaxCalls
    /\ LET result == assess(ProfileOf(name), history[e], now)
       IN  /\ history' = [history EXCEPT ![e] = HistoryAppend(@, result)]
           /\ returned' = <<result>>
    /\ calls' = [calls EXCEPT ![e] = Append(@, name)]
    /\ now' = now + 1
    /\ UNCHANGED <<pc, frame, probe, probe_out, agg_in, agg_out>>

Next == \E e \in Engines, name \in CallerProfiles : Assess(e, name)

Spec == Init /\ [][Next]_vars

----------------------------------------------------------------------------
(* Concurrent callers of one engine.  An assess call reads self.history    *)
(* when it builds the proof record and appends to it as its last           *)
(* statement; the interpreter may switch threads anywhere in between, and  *)
(* the code takes no lock.                                                 *)

SharedEngine == "e1"

\* assess from its first line to the construction of the result
AssessCompute(t, name) ==
    /\ pc[t] = "idle"
    /\ now < MaxCalls
    /\ frame' = [frame EXCEPT ![t] =
                    [profile |-> name,
                     result |-> <<assess(ProfileOf(name), history[SharedEngine], now)>>]]
    /\ pc' = [pc EXCEPT ![t] = "computed"]
    /\ now' = now + 1
    /\ UNCHANGED <<history, calls, returned, probe, probe_out, agg_in, agg_out>>

\* self.history.append(result); return result
AssessAppend(t) ==
    /\ pc[t] = "computed"
    /\ history' = [history EXCEPT
                      ![SharedEngine] = HistoryAppend(@, frame[t].result[1])]
    /\ calls' = [calls EXCEPT ![SharedEngine] = Append(@, frame[t].profile)]
    /\ returned' = frame[t].result
    /\ pc' = [pc EXCEPT ![t] = "idle"]
    /\ frame' = [frame EXCEPT ![t] = NoFrame]
    /\ UNCHANGED <<now, probe, probe_out, agg_in, agg_out>>

NextConc ==
    \/ \E t \in Threads, name \in CallerProfiles : AssessCompute(t, name)
    \/ \E t \in Threads : AssessAppend(t)

SpecConc == Init /\ [][NextConc]_vars

----------------------------------------------------------------------------
(* Generated profiles: the fields each indicator reads, and values to      *)
(* give them                                                               *)

FIELDS == <<
    [ind |-> "RPT-1", theory |-> "RPT", pos |-> 1, section |-> "architecture",
     name |-> "has_recurrent_connections", kind |-> "bool"],
    [ind |-> "RPT-1", theory |-> "RPT", pos |-> 2, section |-> "architecture",
     name |-> "recurrence_depth", kind |-> "count"],
    [ind |-> "RPT-1", theory |-> "RPT", pos |-> 3, section |-> "architecture",
     name |-> "feedback_loop_count", kind |-> "count"],
    [ind |-> "RPT-2", theory |-> "RPT", pos |-> 1, section |-> "architecture",
     name |-> "feedback_connection_richness", kind |-> "cont"],
    [ind |-> "RPT-2", theory |-> "RPT", pos |-> 2, section |-> "architecture",
     name |-> "bidirectional_connections", kind |-> "bool"],
    [ind |-> "RPT-2", theory |-> "RPT", pos |-> 3, section |-> "architecture",
     name |-> "cross_layer_feedback", kind |-> "count"],
    [ind |-> "GWT-1", theory |-> "GWT", pos |-> 1, section |-> "architecture",
     name |-> "specialized_module_count", kind |-> "count"],
    [ind |-> "GWT-1", theory |-> "GWT", pos |-> 2, section |-> "architecture",
     name |-> "module_specialization_score", kind |-> "cont"],
    [ind |-> "GWT-1", theory |-> "GWT", pos |-> 3, section |-> "architecture",
     name |-> "has_central_workspace", kind |-> "bool"],
    [ind |-> "GWT-2", theory |-> "GWT", pos |-> 1, section |-> "architecture",
     name |-> "global_broadcast_capability", kind |-> "cont"],
    [ind |-> "GWT-2", theory |-> "GWT", pos |-> 2, section |-> "behaviors",
     name |-> "workspace_ignition_detected", kind |-> "bool"],
    [ind |-> "GWT-2", theory |-> "GWT", pos |-> 3, section |-> "architecture",
     name |-> "broadcast_latency_ms", kind |-> "latency"],
    [ind |-> "GWT-3", theory |-> "GWT", pos |-> 1, section |-> "architecture",
     name |-> "routing_flexibility", kind |-> "cont"],
    [ind |-> "GWT-3", theory |-> "GWT", pos |-> 2, section |-> "architecture",
     name |-> "has_dynamic_routing", kind |-> "bool"],
    [ind |-> "GWT-3", theory |-> "GWT", pos |-> 3, section |-> "architecture",
     name |-> "has_attention_mechanism", kind |-> "bool"],
    [ind |-> "HOT-1", theory |-> "HOT", pos |-> 1, section |-> "architecture",
     name |-> "has_meta_representations", kind |-> "bool"],
    [ind |-> "HOT-1", theory |-> "HOT", pos |-> 2, section |-> "architecture",
     name |-> "meta_representation_depth", kind |-> "count"],
    [ind |-> "HOT-1", theory |-> "HOT", pos |-> 3, section |-> "internal_states",
     name |-> "has_self_model", kind |-> "bool"],
    [ind |-> "HOT-2", theory |-> "HOT", pos |-> 1, section |-> "behaviors",
     name |-> "uncertainty_monitoring", kind |-> "cont"],
    [ind |-> "HOT-2", theory |-> "HOT", pos |-> 2, section |-> "behaviors",
     name |-> "confidence_calibration", kind |-> "cont"],
    [ind |-> "HOT-2", theory |-> "HOT", pos |-> 3, section |-> "behaviors",
     name |-> "error_detection_rate", kind |-> "cont"],
    [ind |-> "HOT-3", theory |-> "HOT", pos |-> 1, section |-> "behaviors",
     name |-> "agency_score", kind |-> "cont"],
    [ind |-> "HOT-3", theory |-> "HOT", pos |-> 2, section |-> "behaviors",
     name |-> "systematic_preferences", kind |-> "bool"],
    [ind |-> "HOT-3", theory |-> "HOT", pos |-> 3, section |-> "behaviors",
     name |-> "goal_directed_behavior", kind |-> "bool"],
    [ind |-> "HOT-4", theory |-> "HOT", pos |-> 1, section |-> "architecture",
     name |-> "embedding_smoothness", kind |-> "cont"],
    [ind |-> "HOT-4", theory |-> "HOT", pos |-> 2, section |-> "architecture",
     name |-> "has_continuous_representations", kind |-> "bool"],
    [ind |-> "HOT-4", theory |-> "HOT", pos |-> 3, section |-> "architecture",
     name |-> "interpolation_quality", kind |-> "cont"],
    [ind |-> "PP-1", theory |-> "PP", pos |-> 1, section |-> "architecture",
     name |-> "hierarchical_depth", kind |-> "count"],
    [ind |-> "PP-1", theory |-> "PP", pos |-> 2, section |-> "architecture",
     name |-> "has_top_down_predictions", kind |-> "bool"],
    [ind |-> "PP-1", theory |-> "PP", pos |-> 3, section |-> "architecture",
     name |-> "has_generative_model", kind |-> "bool"],
    [ind |-> "PP-2", theory |-> "PP", pos |-> 1, section |-> "architecture",
     name |-> "prediction_error_minimization", kind |-> "bool"],
    [ind |-> "PP-2", theory |-> "PP", pos |-> 2, section |-> "internal_states",
     name |-> "mean_prediction_error", kind |-> "cont"],
    [ind |-> "PP-2", theory |-> "PP", pos |-> 3, section |-> "internal_states",
     name |-> "prediction_error_convergence", kind |-> "cont"],
    [ind |-> "AST-1", theory |-> "AST", pos |-> 1, section |-> "architecture",
     name |-> "has_attention_schema", kind |-> "bool"],
    [ind |-> "AST-1", theory |-> "AST", pos |-> 2, section |-> "internal_states",
     name |-> "can_report_attention_state", kind |-> "bool"],
    [ind |-> "AST-1", theory |-> "AST", pos |-> 3, section |-> "internal_states",
     name |-> "attention_model_accuracy", kind |-> "cont"],
    [ind |-> "AST-2", theory |-> "AST", pos |-> 1, section |-> "behaviors",
     name |-> "attention_guided_behavior", kind |-> "cont"],
    [ind |-> "AST-2", theory |-> "AST", pos |-> 2, section |-> "internal_states",
     name |-> "dynamic_attention_allocation", kind |-> "bool"],
    [ind |-> "AST-2", theory |-> "AST", pos |-> 3, section |-> "internal_states",
     name |-> "priority_based_weighting", kind |-> "cont"]>>

SECTIONS == {"architecture", "behaviors", "internal_states"}

IndicatorIds == {FIELDS[k].ind : k \in DOMAIN FIELDS}

\* values drawn for a field of each kind; choice 0 leaves the field out
Values(kind) ==
    CASE kind = "bool" -> <<FALSE, TRUE>>
      [] kind = "cont" -> <<0, 100, 75, 50, -100, 300, 30, 25>>
      [] kind = "count" -> <<0, 3, 5, 20, -10, 1, 10, 2>>
      [] kind = "latency" -> <<99, 100, 1000, -5>>

\* choices drawn per field when one indicator is applied
GridSize == 7

Choices(kind) == 0 .. Min(GridSize, Len(Values(kind)))

\* the choice that sets a field of the given kind to the value v
ChoiceOf(kind, v) == CHOOSE c \in DOMAIN Values(kind) : Values(kind)[c] = v

\* the dict of one section: the fields whose choice is not 0
SectionFrom(ch, section) ==
    LET chosen == {k \in DOMAIN FIELDS : FIELDS[k].section = section /\ ch[k] > 0}
    IN  [n \in {FIELDS[k].name : k \in chosen} |->
            LET k == CHOOSE j \in chosen : FIELDS[j].name = n
            IN  Values(FIELDS[k].kind)[ch[k]]]

\* the profile: a section none of whose fields is chosen is absent
ProfileFrom(ch) ==
    [section \in {FIELDS[k].section : k \in {j \in DOMAIN FIELDS : ch[j] > 0}} |->
        SectionFrom(ch, section)]

----------------------------------------------------------------------------
(* One evaluator family applied to a profile that sets one indicator's     *)
(* fields                                                                  *)

FieldOf(ind, pos) ==
    FIELDS[CHOOSE k \in DOMAIN FIELDS : FIELDS[k].ind = ind /\ FIELDS[k].pos = pos]

ProbeInputs ==
    UNION {{[ind |-> ind, choice |-> <<a, b, c>>] :
               a \in Choices(FieldOf(ind, 1).kind),
               b \in Choices(FieldOf(ind, 2).kind),
               c \in Choices(FieldOf(ind, 3).kind)} : ind \in IndicatorIds}

ProbeProfile(p) ==
    ProfileFrom([k \in DOMAIN FIELDS |->
                    IF FIELDS[k].ind = p.ind THEN p.choice[FIELDS[k].pos] ELSE 0])

\* family.evaluate(profile)
Evaluate(theory, profile) ==
    CASE theory = "RPT" -> RPT_evaluate(profile)
      [] theory = "GWT" -> GWT_evaluate(profile)
      [] theory = "HOT" -> HOT_evaluate(profile)
      [] theory = "PP" -> PP_evaluate(profile)
      [] theory = "AST" -> AST_evaluate(profile)

\* the indicator's own result among its family's
EvaluateProbe(p) ==
    LET results == Evaluate(FieldOf(p.ind, 1).theory, ProbeProfile(p))
    IN  results[CHOOSE i \in DOMAIN results : results[i].indicator_id = p.ind]

QuietEngine ==
    /\ history = [e \in Engines |-> <<>>]
    /\ calls = [e \in Engines |-> <<>>]
    /\ now = 0
    /\ returned = <<>>
    /\ pc = [t \in Threads |-> "idle"]
    /\ frame = [t \in Threads |-> NoFrame]

InitEval ==
    /\ QuietEngine
    /\ probe \in ProbeInputs
    /\ probe_out = <<>>
    /\ agg_in = <<>>
    /\ agg_out = <<>>

ApplyEvaluate ==
    /\ probe_out = <<>>
    /\ probe_out' = <<EvaluateProbe(probe)>>
    /\ UNCHANGED <<history, calls, now, returned, pc, frame, probe, agg_in, agg_out>>

SpecEval == InitEval /\ [][ApplyEvaluate]_vars

----------------------------------------------------------------------------
(* One assess call on a fresh engine, over profiles that set the fields of *)
(* each theory's indicators to one of a few levels                         *)

\* levels drawn per theory
NumLevels == 4

\* the choice a level makes for a field of each kind:
\*   1 leaves every field out; 2 sets every field high; 3 sets no boolean and
\*   middling numbers; 4 sets negative numbers; 5 sets zeros; 6 sets low numbers
LevelChoice(kind, level) ==
    CASE level = 1 -> 0
      [] level = 2 -> (CASE kind = "bool" -> 2 [] kind = "cont" -> 2
                         [] kind = "count" -> 4 [] kind = "latency" -> 1)
      [] level = 3 -> (CASE kind = "bool" -> 1 [] kind = "cont" -> 3
                         [] kind = "count" -> 2 [] kind = "latency" -> 2)
      [] level = 4 -> (CASE kind = "bool" -> 2 [] kind = "cont" -> 5
                         [] kind = "count" -> 5 [] kind = "latency" -> 3)
      [] level = 5 -> (CASE kind = "bool" -> 1 [] kind = "cont" -> 1
                         [] kind = "count" -> 1 [] kind = "latency" -> 3)
      [] OTHER -> (CASE kind = "bool" -> 2 [] kind = "cont" -> 4
                     [] kind = "count" -> 6 [] kind = "latency" -> 1)

LevelProfile(levels) ==
    ProfileFrom([k \in DOMAIN FIELDS |->
                    LevelChoice(FIELDS[k].kind, levels[FIELDS[k].theory])])

\* engine.assess(profile) on the fresh engine, start to return
AssessLevels(levels) ==
    /\ now = 0
    /\ LET result == assess(LevelProfile(levels), history[SharedEngine], now)
       IN  /\ history' = [history EXCEPT ![SharedEngine] = HistoryAppend(@, result)]
           /\ returned' = <<result>>
    /\ calls' = [calls EXCEPT ![SharedEngine] = Append(@, "generated")]
    /\ now' = now + 1
    /\ UNCHANGED <<pc, frame, probe, probe_out, agg_in, agg_out>>

NextBattery ==
    \E levels \in [Range(THEORIES) -> 1 .. NumLevels] : AssessLevels(levels)

SpecBattery == Init /\ [][NextBattery]_vars

----------------------------------------------------------------------------
(* aggregate applied to indicator lists and theory_scores mappings of any  *)
(* shape, the standard battery's or not                                    *)

\* longest run of equal indicators in a list
MaxRun == 18

RECURSIVE Rep(_, _)
Rep(n, x) == IF n = 0 THEN <<>> ELSE <<x>> \o Rep(n - 1, x)

Ind(theory, satisfied, partial) ==
    [indicator_id |-> "X", theory |-> theory, score |-> 0,
     satisfied |-> satisfied, partial |-> partial]

\* theories an indicator may name: the five weighted ones and one that is not
AggTheories == Range(THEORIES) \cup {"AE"}

AggScores(k) ==
    CASE k = 1 -> EmptyDict
      [] k = 2 -> [theory \in Range(THEORIES) |-> Weight(100)]
      [] k = 3 -> [RPT |-> Weight(70), GWT |-> Weight(70) - 1, HOT |-> 0 - Weight(100),
                   PP |-> Weight(500), AST |-> 0]
      [] k = 4 -> [AE |-> Weight(100), HOT |-> Weight(100)]

AggInputs ==
    {[indicators |-> Rep(s, Ind(t, TRUE, TRUE)) \o Rep(q, Ind(t, FALSE, TRUE))
                        \o Rep(o, Ind(t, TRUE, FALSE)) \o Rep(n, Ind(t, FALSE, FALSE)),
      theory_scores |-> AggScores(k)] :
        t \in AggTheories, s \in 0 .. MaxRun, q \in 0 .. 1, o \in 0 .. 1,
        n \in {0, 1, MaxRun}, k \in 1 .. 4}

InitAgg ==
    /\ QuietEngine
    /\ probe = <<>>
    /\ probe_out = <<>>
    /\ agg_in \in AggInputs
    /\ agg_out = <<>>

ApplyAggregate ==
    /\ agg_out = <<>>
    /\ agg_out' = <<aggregate(agg_in.indicators, agg_in.theory_scores)>>
    /\ UNCHANGED <<history, calls, now, returned, pc, frame, probe, probe_out, agg_in>>

SpecAgg == InitAgg /\ [][ApplyAggregate]_vars

----------------------------------------------------------------------------
(* A thermostat-like profile assessed by one engine and a profile with a   *)
(* few capable indicators by another                                       *)

\* indicators whose fields a selected profile sets
MaxSelected == 2

\* theories with a count-like field
CountTheories == {FIELDS[k].theory : k \in {j \in DOMAIN FIELDS : FIELDS[j].kind = "count"}}

\* every boolean false, every continuous field 0, the latency as given and
\* the count-like fields of each theory as given
ThermostatLike(counts, latency) ==
    ProfileFrom([k \in DOMAIN FIELDS |->
        CASE FIELDS[k].kind = "bool" -> ChoiceOf("bool", FALSE)
          [] FIELDS[k].kind = "cont" -> ChoiceOf("cont", 0)
          [] FIELDS[k].kind = "latency" -> ChoiceOf("latency", latency)
          [] FIELDS[k].kind = "count" -> ChoiceOf("count", counts[FIELDS[k].theory])])

\* the fields of the selected indicators at their best, every other field absent
Selected(inds) ==
    ProfileFrom([k \in DOMAIN FIELDS |->
        IF FIELDS[k].ind \notin inds THEN 0
        ELSE CASE FIELDS[k].kind = "bool" -> ChoiceOf("bool", TRUE)
               [] FIELDS[k].kind = "cont" -> ChoiceOf("cont", 100)
               [] FIELDS[k].kind = "latency" -> ChoiceOf("latency", 99)
               [] FIELDS[k].kind = "count" -> ChoiceOf("count", 20)])

\* engine.assess(profile) as the first call on engine e
AssessProfile(e, profile) ==
    /\ history[e] = <<>>
    /\ LET result == assess(profile, history[e], now)
       IN  /\ history' = [history EXCEPT ![e] = HistoryAppend(@, result)]
           /\ returned' = <<result>>
    /\ calls' = [calls EXCEPT ![e] = Append(@, profile)]
    /\ now' = now + 1
    /\ UNCHANGED <<pc, frame, probe, probe_out, agg_in, agg_out>>

NextScenario ==
    \/ \E counts \in [CountTheories -> {0, 20}], latency \in {100, 1000} :
          AssessProfile("e1", ThermostatLike(counts, latency))
    \/ \E inds \in SUBSET IndicatorIds :
          /\ Cardinality(inds) <= MaxSelected
          /\ AssessProfile("e2", Selected(inds))

SpecScenario == Init /\ [][NextScenario]_vars

----------------------------------------------------------------------------
(* The runner: assessment_runner.py.  One runner owns one engine; each of  *)
(* its operations is given here as the history it leaves, the names it     *)
(* assessed and what it returns or raises.                                 *)

\* self.engine of the runner
RunnerEngine == "e1"

\* names a caller may ask for that the catalog does not hold
UnknownNames == {"HAL-9000"}

\* entries a runner's history holds at most
MaxEntries == 8

\* raise ValueError(f"Unknown system: {system_name}. Available: {available}")
NotFound(system_name) ==
    [raised |-> "ValueError", system |-> system_name, available |-> REFERENCE_NAMES]

\* a run_reference that assesses an empty profile for a name it does not know
run_reference_lenient(hist, system_name, timestamp) ==
    LET profile == IF system_name \in Range(REFERENCE_NAMES)
                   THEN REFERENCE_PROFILES(system_name) ELSE EmptyDict
        result == assess(profile, hist, timestamp)
    IN  [history |-> HistoryAppend(hist, result), assessed |-> <<system_name>>,
         outcome |-> result]

run_reference(hist, system_name, timestamp) ==
    IF system_name \notin Range(REFERENCE_NAMES)
    THEN [history |-> hist, assessed |-> <<>>, outcome |-> NotFound(system_name)]
    ELSE LET result == assess(REFERENCE_PROFILES(system_name), hist, timestamp)
         IN  [history |-> HistoryAppend(hist, result), assessed |-> <<system_name>>,
              outcome |-> result]

RECURSIVE RunEach(_, _, _, _)
\* the loop of run_all_references over the names still to run
RunEach(hist, results, names, timestamp) ==
    IF names = <<>> THEN [history |-> hist, results |-> results]
    ELSE With(run_reference(hist, names[1], timestamp),
              LAMBDA r : RunEach(r.history, Append(results, r.outcome),
                                 Tail(names), timestamp + 1))

\* a run_all_references that assesses the catalog on an engine of its own
run_all_references_apart(hist, timestamp) ==
    With(RunEach(<<>>, <<>>, REFERENCE_NAMES, timestamp),
         LAMBDA r : [history |-> hist, assessed |-> REFERENCE_NAMES,
                     outcome |-> [results |-> r.results]])

\* for name in self.REFERENCE_PROFILES: results.append(self.run_reference(name))
run_all_references(hist, timestamp) ==
    With(RunEach(hist, <<>>, REFERENCE_NAMES, timestamp),
         LAMBDA r : [history |-> r.history, assessed |-> REFERENCE_NAMES,
                     outcome |-> [results |-> r.results]])

run_custom(hist, profile, timestamp) ==
    LET result == assess(profile, hist, timestamp)
    IN  [history |-> HistoryAppend(hist, result), assessed |-> <<"custom">>,
         outcome |-> result]

RECURSIVE InsertByCredence_before(_, _)
\* an insertion that puts a result before those of the same credence
InsertByCredence_before(sorted, r) ==
    IF sorted = <<>> THEN <<r>>
    ELSE IF sorted[1].credence > r.credence
         THEN <<sorted[1]>> \o InsertByCredence_before(Tail(sorted), r)
         ELSE <<r>> \o sorted

RECURSIVE InsertByCredence(_, _)
\* list.sort is stable: a result goes behind every result whose credence is
\* not lower than its own
InsertByCredence(sorted, r) ==
    IF sorted = <<>> THEN <<r>>
    ELSE IF sorted[1].credence >= r.credence
         THEN <<sorted[1]>> \o InsertByCredence(Tail(sorted), r)
         ELSE <<r>> \o sorted

RECURSIVE SortByCredence(_)
\* results.sort(key=lambda r: r.credence, reverse=True)
SortByCredence(results) ==
    IF results = <<>> THEN <<>>
    ELSE InsertByCredence(SortByCredence(SubSeq(results, 1, Len(results) - 1)),
                          results[Len(results)])

\* f"{r.credence:<12.1%}": tenths of a percent
PerMille(credence) == (credence + (ONE \div 2000)) \div (ONE \div 1000)

\* f"{score:>7.0%}": whole percents
Percent(score) == (score * 100 + (SCALE \div 2)) \div SCALE

\* the lines of the report that depend on the results: the ranking table and
\* the theory comparison, both in the order of the sorted list
ReportLines(results) ==
    [ranking |-> [i \in DOMAIN results |->
                    [rank |-> i,
                     system_name |-> results[i].system_name,
                     system_type |-> results[i].system_type,
                     credence |-> PerMille(results[i].credence),
                     satisfied_count |-> results[i].satisfied_count,
                     total_indicators |-> results[i].total_indicators]],
     theories |-> [i \in DOMAIN results |->
                    [system_name |-> results[i].system_name,
                     RPT |-> Percent(Get(results[i].theory_scores, "RPT", 0)),
                     GWT |-> Percent(Get(results[i].theory_scores, "GWT", 0)),
                     HOT |-> Percent(Get(results[i].theory_scores, "HOT", 0)),
                     PP |-> Percent(Get(results[i].theory_scores, "PP", 0)),
                     AST |-> Percent(Get(results[i].theory_scores, "AST", 0))]]]

comparative_report(hist, timestamp) ==
    With(run_all_references(hist, timestamp),
         LAMBDA r :
            With(SortByCredence(r.outcome.results),
                 LAMBDA results :
                    [history |-> r.history, assessed |-> r.assessed,
                     outcome |-> [report |-> ReportLines(results)]]))

\* the effect of a runner operation on the state
RunnerStep(r) ==
    /\ Len(r.history) <= MaxEntries
    /\ history' = [history EXCEPT ![RunnerEngine] = r.history]
    /\ calls' = [calls EXCEPT ![RunnerEngine] = @ \o r.assessed]
    /\ now' = now + Len(r.assessed)
    /\ returned' = <<r.outcome>>
    /\ UNCHANGED <<pc, frame, probe, probe_out, agg_in, agg_out>>

\* names the callers modelled here pass to run_reference
RunnerNames == {"Thermostat"} \cup UnknownNames

RunReference(system_name) ==
    \E r \in {run_reference(history[RunnerEngine], system_name, now)} : RunnerStep(r)

RunAllReferences ==
    \E r \in {run_all_references(history[RunnerEngine], now)} : RunnerStep(r)

RunCustom(profile) ==
    \E r \in {run_custom(history[RunnerEngine], profile, now)} : RunnerStep(r)

ComparativeReport ==
    \E r \in {comparative_report(history[RunnerEngine], now)} : RunnerStep(r)

NextRunner ==
    \/ \E system_name \in RunnerNames : RunReference(system_name)
    \/ RunAllReferences
    \/ RunCustom(CUSTOM_PROFILES("nameless"))
    \/ ComparativeReport

SpecRunner == Init /\ [][NextRunner]_vars

----------------------------------------------------------------------------
(* The report's ranking applied to result lists of any credences           *)

\* results in a list to rank
MaxRanked == 4

RankedNames == <<"S1", "S2", "S3", "S4", "S5", "S6">>

\* the fields of an AssessmentResult the report reads
Ranked(name, credence) ==
    [system_name |-> name, system_type |-> "Probe", credence |-> credence,
     satisfied_count |-> 0, total_indicators |-> 13,
     theory_scores |-> [theory \in Range(THEORIES) |-> 0]]

RankInputs ==
    UNION {{[i \in 1 .. n |-> Ranked(RankedNames[i], c[i])] :
               c \in [1 .. n -> {445, 7573, 990000}]} : n \in 0 .. MaxRanked}

InitRank ==
    /\ QuietEngine
    /\ probe \in RankInputs
    /\ probe_out = <<>>
    /\ agg_in = <<>>
    /\ agg_out = <<>>

ApplyRank ==
    /\ probe_out = <<>>
    /\ probe_out' = <<With(SortByCredence(probe),
                          LAMBDA results : [report_lines |-> ReportLines(results)])>>
    /\ UNCHANGED <<history, calls, now, returned, pc, frame, probe, agg_in, agg_out>>

SpecRank == InitRank /\ [][ApplyRank]_vars

----------------------------------------------------------------------------
(* sensitivity_analysis applied to indicator lists of any shape            *)

\* indicators behind the run of satisfied ones
MaxTail == 2

IndicatorNames == [i \in 1 .. 20 |-> <<"IND", i>>]

\* the list with indicator ids that tell its entries apart
Numbered(indicators) ==
    [i \in DOMAIN indicators |->
        [indicators[i] EXCEPT !.indicator_id = IndicatorNames[i]]]

SensTails ==
    UNION {[1 .. n -> {Ind(t, s, q) : t \in {"RPT", "AE"}, s \in BOOLEAN, q \in BOOLEAN}] :
              n \in 0 .. MaxTail}

SensInputs ==
    {[indicators |-> Numbered(Rep(s, Ind(t, TRUE, TRUE)) \o tail),
      theory_scores |-> AggScores(k)] :
        t \in AggTheories, s \in {0, 6, 12}, tail \in SensTails, k \in 1 .. 4}

InitSens ==
    /\ QuietEngine
    /\ probe = <<>>
    /\ probe_out = <<>>
    /\ agg_in \in SensInputs
    /\ agg_out = <<>>

ApplySensitivity ==
    /\ agg_out = <<>>
    /\ \E r \in {sensitivity_analysis(agg_in.indicators, agg_in.theory_scores)} :
          /\ agg_out' = <<r.contributions>>
          /\ agg_in' = [agg_in EXCEPT !.indicators = r.indicators]
    /\ UNCHANGED <<history, calls, now, returned, pc, frame, probe, probe_out>>

SpecSens == InitSens /\ [][ApplySensitivity]_vars

----------------------------------------------------------------------------
(* Claims                                                                  *)

\* what was hashed into a result's proof_hash
ProofInput(result) == result.proof_hash[2]

\* every entry's proof record names its predecessor's proof_hash, the first "GENESIS"
Linked(hist) ==
    \A i \in DOMAIN hist :
        ProofInput(hist[i]).prev = IF i = 1 THEN GENESIS ELSE hist[i - 1].proof_hash

\* C1: with several callers running assess on one engine at once, every
\* entry at a position i > 1 was computed with the proof_hash of the entry at
\* i - 1 as prev, and no two entries were computed from the same predecessor.
C1_Linearized ==
    LET hist == history[SharedEngine]
    IN  /\ Linked(hist)
        /\ \A i, j \in DOMAIN hist :
              i # j => ProofInput(hist[i]).prev # ProofInput(hist[j]).prev

\* C2: after any sequence of sequential assess calls the proof record of
\* the first entry of an engine's history holds "GENESIS" as prev and the
\* proof record of every later entry holds the proof_hash of the entry
\* before it.
C2_ChainIntegrity == \A e \in Engines : Linked(history[e])

C2_Witness ==
    /\ Len(history["e1"]) = 3
    /\ ProofInput(history["e1"][3]).prev = history["e1"][2].proof_hash
    /\ history["e1"][2].proof_hash # history["e1"][1].proof_hash

\* C3: every assess call makes one engine's history longer by exactly one
\* entry, the entry appended is the result returned to the caller, and no
\* entry that was there moves, changes or goes away.
C3_AppendOnly ==
    [][/\ \E e \in Engines :
              /\ Len(history'[e]) = Len(history[e]) + 1
              /\ returned' = <<history'[e][Len(history'[e])]>>
              /\ \A o \in Engines \ {e} : history'[o] = history[o]
       /\ \A e \in Engines :
              /\ Len(history'[e]) >= Len(history[e])
              /\ SubSeq(history'[e], 1, Len(history[e])) = history[e]]_vars

C3_Witness ==
    /\ Len(history["e1"]) >= 2
    /\ Len(history["e2"]) >= 1
    /\ returned = <<history["e1"][Len(history["e1"])]>>

\* a result without its timestamp
Untimed(result) ==
    [f \in DOMAIN result \ {"timestamp"} |-> result[f]]

UntimedAll(hist) == [i \in DOMAIN hist |-> Untimed(hist[i])]

\* C4: two assess calls with the same profile, made on engines whose earlier
\* entries agree in everything but their timestamps, give results that agree
\* in indicator scores, theory_scores, credence and proof_hash: the
\* timestamp may differ and is no input of the proof hash.
C4_Deterministic ==
    \A e1, e2 \in Engines :
        \A i \in DOMAIN history[e1] :
            (/\ i \in DOMAIN history[e2]
             /\ calls[e1][i] = calls[e2][i]
             /\ UntimedAll(SubSeq(history[e1], 1, i - 1))
                    = UntimedAll(SubSeq(history[e2], 1, i - 1)))
            => /\ history[e1][i].indicators = history[e2][i].indicators
               /\ history[e1][i].theory_scores = history[e2][i].theory_scores
               /\ history[e1][i].credence = history[e2][i].credence
               /\ history[e1][i].proof_hash = history[e2][i].proof_hash

C4_Witness ==
    /\ Len(history["e1"]) = 2
    /\ Len(history["e2"]) = 2
    /\ calls["e1"] = calls["e2"]
    /\ history["e1"][2].timestamp # history["e2"][2].timestamp
    /\ history["e1"][2].proof_hash = history["e2"][2].proof_hash

\* C5: every AssessmentResult holds exactly 14 IndicatorResults and its
\* total_indicators is 14.
C5_FourteenIndicators ==
    \A e \in Engines :
        \A i \in DOMAIN history[e] :
            /\ Len(history[e][i].indicators) = 14
            /\ history[e][i].total_indicators = 14

\* position of a theory in the fixed order RPT, GWT, HOT, PP, AST
Rank(theory) == CHOOSE k \in DOMAIN THEORIES : THEORIES[k] = theory

\* C6: in every AssessmentResult the indicators stand in the theory order
\* RPT, GWT, HOT, PP, AST: each of the five families has contributed, and no
\* indicator of a later theory stands before one of an earlier theory.
C6_TheoryOrder ==
    \A e \in Engines :
        \A i \in DOMAIN history[e] :
            LET inds == history[e][i].indicators
            IN  /\ {inds[k].theory : k \in DOMAIN inds} = Range(THEORIES)
                /\ \A a, b \in DOMAIN inds :
                      a < b => Rank(inds[a].theory) <= Rank(inds[b].theory)

C6_Witness ==
    /\ Len(history[SharedEngine]) = 1
    /\ history[SharedEngine][1].satisfied_count >= 1
    /\ history[SharedEngine][1].indicators[3].theory = "GWT"
    /\ history[SharedEngine][1].indicators[6].theory = "HOT"

\* C7: whatever numbers the fields of a profile hold, every score an
\* evaluator produces lies in [0, 1].
C7_ScoreInUnitInterval ==
    \A k \in DOMAIN probe_out :
        /\ probe_out[k].score >= 0
        /\ probe_out[k].score <= SCALE

\* C8: for every indicator list and every theory_scores mapping the
\* credence aggregate returns lies in [0, 0.99].
C8_CredenceInRange ==
    \A k \in DOMAIN agg_out :
        /\ agg_out[k] >= 0
        /\ agg_out[k] <= 990000

C8_Witness ==
    /\ agg_out = <<990000>>
    /\ Posterior(agg_in.indicators) + TheoryBonus(agg_in.theory_scores) > 990000
    /\ TheoryBonus(agg_in.theory_scores) > 0

\* C9: in every IndicatorResult satisfied is true exactly when the score is
\* at least 0.7 and partial is true exactly when the score is at least 0.3,
\* both bounds included.
C9_ThresholdsExact ==
    \A k \in DOMAIN probe_out :
        /\ probe_out[k].satisfied <=> (probe_out[k].score >= Weight(70))
        /\ probe_out[k].partial <=> (probe_out[k].score >= Weight(30))

C9_Witness ==
    /\ probe_out # <<>>
    /\ probe_out[1].indicator_id = "RPT-1"
    /\ probe_out[1].score = Weight(70)
    /\ probe_out[1].satisfied

RECURSIVE CountWhere(_, _, _)
\* how many indicators of a list have the given satisfied and partial flags
CountWhere(inds, satisfied, partial) ==
    IF inds = <<>> THEN 0
    ELSE (IF inds[1].satisfied = satisfied /\ inds[1].partial = partial THEN 1 ELSE 0)
         + CountWhere(Tail(inds), satisfied, partial)

\* C10: in every AssessmentResult satisfied_count is the number of
\* indicators with satisfied true, partial_count is the number with partial
\* true and satisfied false, and the two together do not exceed
\* total_indicators.
C10_CountsPartition ==
    \A e \in Engines :
        \A i \in DOMAIN history[e] :
            LET r == history[e][i]
            IN  /\ r.satisfied_count = CountWhere(r.indicators, TRUE, TRUE)
                                         + CountWhere(r.indicators, TRUE, FALSE)
                /\ r.partial_count = CountWhere(r.indicators, FALSE, TRUE)
                /\ r.satisfied_count + r.partial_count <= r.total_indicators

C10_Witness ==
    /\ Len(history[SharedEngine]) = 1
    /\ history[SharedEngine][1].satisfied_count >= 2
    /\ history[SharedEngine][1].partial_count >= 2
    /\ history[SharedEngine][1].satisfied_count + history[SharedEngine][1].partial_count
           < history[SharedEngine][1].total_indicators

\* the indicators of one theory in a result
OfTheory(result, theory) == SelectSeq(result.indicators, LAMBDA i : i.theory = theory)

\* m is the arithmetic mean of the scores of inds, to the resolution 1/SCALE
\* scores are carried at; 0 for no indicators
IsMeanOf(m, inds) ==
    IF inds = <<>> THEN m = 0
    ELSE /\ Len(inds) * m <= SumScores(inds)
         /\ SumScores(inds) < Len(inds) * m + Len(inds)

\* C11: in every AssessmentResult theory_scores has the five keys RPT, GWT,
\* HOT, PP, AST and no other, and the value at each is the arithmetic mean of
\* the scores of that theory's indicators, 0 when the theory has none.
C11_TheoryMeans ==
    \A e \in Engines :
        \A i \in DOMAIN history[e] :
            LET r == history[e][i]
            IN  /\ DOMAIN r.theory_scores = {"RPT", "GWT", "HOT", "PP", "AST"}
                /\ \A theory \in DOMAIN r.theory_scores :
                      IsMeanOf(r.theory_scores[theory], OfTheory(r, theory))

\* a result whose HOT score is the mean of four scores that are not all equal
C11_Witness ==
    /\ Len(history[SharedEngine]) = 1
    /\ LET r == history[SharedEngine][1]
       IN  /\ Len(OfTheory(r, "HOT")) = 4
           /\ \E a, b \in 1 .. 4 :
                 OfTheory(r, "HOT")[a].score < r.theory_scores["HOT"]
                 /\ OfTheory(r, "HOT")[b].score > r.theory_scores["HOT"]
           /\ r.theory_scores["RPT"] # r.theory_scores["HOT"]

\* w is a higher value of a field than v: true above false, else the larger number
Raised(kind, v, w) == IF kind = "bool" THEN v = FALSE /\ w = TRUE ELSE v < w

\* the choices that raise the field at position pos of the input p, the
\* field being set in p
RaisingChoices(p, pos) ==
    LET kind == FieldOf(p.ind, pos).kind
    IN  {c \in Choices(kind) \ {0} :
            /\ p.choice[pos] > 0
            /\ Raised(kind, Values(kind)[p.choice[pos]], Values(kind)[c])}

\* the input p with the field at position pos set by choice c
WithChoice(p, pos, c) == [p EXCEPT !.choice[pos] = c]

\* the fields of which less is better: an error and a delay
LowerIsBetter == {"mean_prediction_error", "broadcast_latency_ms"}

\* C12 as stated: raising any one field an indicator reads, the prediction
\* error of PP-2 and the broadcast latency of GWT-2 among them, with the
\* other fields held, never lowers the indicator's score.
C12_MonotoneEveryField ==
    \A k \in DOMAIN probe_out :
        \A pos \in 1 .. 3 :
            \A c \in RaisingChoices(probe, pos) :
                EvaluateProbe(WithChoice(probe, pos, c)).score >= probe_out[k].score

\* C12 amended: raising one field with the others held never lowers the
\* indicator's score, except that raising mean_prediction_error (PP-2) or
\* broadcast_latency_ms (GWT-2) never raises it.
C12_MonotoneByDirection ==
    \A k \in DOMAIN probe_out :
        \A pos \in 1 .. 3 :
            \A c \in RaisingChoices(probe, pos) :
                IF FieldOf(probe.ind, pos).name \in LowerIsBetter
                THEN EvaluateProbe(WithChoice(probe, pos, c)).score <= probe_out[k].score
                ELSE EvaluateProbe(WithChoice(probe, pos, c)).score >= probe_out[k].score

\* PP-2 evaluated where a higher prediction error gives a strictly lower
\* score and a higher convergence a strictly higher one
C12_Witness ==
    /\ probe_out # <<>>
    /\ probe.ind = "PP-2"
    /\ \E pos \in 1 .. 3 :
          /\ FieldOf("PP-2", pos).name = "mean_prediction_error"
          /\ \E c \in RaisingChoices(probe, pos) :
                EvaluateProbe(WithChoice(probe, pos, c)).score < probe_out[1].score
    /\ \E pos \in 1 .. 3 :
          /\ FieldOf("PP-2", pos).name = "prediction_error_convergence"
          /\ \E c \in RaisingChoices(probe, pos) :
                EvaluateProbe(WithChoice(probe, pos, c)).score > probe_out[1].score

\* what an absent field is said to count as: false, 0, or a long latency
ZeroDefault(field) ==
    CASE field.kind = "bool" -> FALSE
      [] field.kind = "latency" -> 1000
      [] OTHER -> 0

\* the same, with an absent mean_prediction_error counting as 1.0
CodeDefault(field) ==
    IF field.name = "mean_prediction_error" THEN 100 ELSE ZeroDefault(field)

\* every indicator of the empty profile scores under the partial threshold
\* and none is satisfied
LowWhenEmpty ==
    \A k \in DOMAIN probe_out :
        probe.choice = <<0, 0, 0>> =>
            /\ probe_out[k].score < Weight(30)
            /\ ~probe_out[k].satisfied
            /\ ~probe_out[k].partial

\* C13 as stated: evaluation of a profile with absent fields gives a result,
\* the one it gives with each absent boolean set to false, each absent
\* number to 0 and an absent latency to a large value; on the empty profile
\* every score is under 0.3 and nothing is satisfied.
C13_AbsentAsZero ==
    /\ LowWhenEmpty
    /\ \A k \in DOMAIN probe_out :
          \A pos \in 1 .. 3 :
              probe.choice[pos] = 0 =>
                  LET field == FieldOf(probe.ind, pos)
                  IN  EvaluateProbe(WithChoice(probe, pos,
                          ChoiceOf(field.kind, ZeroDefault(field)))) = probe_out[k]

\* C13 amended: the same, except that an absent mean_prediction_error
\* counts as 1.0, the least favourable error, not as 0.
C13_AbsentAsDefault ==
    /\ LowWhenEmpty
    /\ \A k \in DOMAIN probe_out :
          \A pos \in 1 .. 3 :
              probe.choice[pos] = 0 =>
                  LET field == FieldOf(probe.ind, pos)
                  IN  EvaluateProbe(WithChoice(probe, pos,
                          ChoiceOf(field.kind, CodeDefault(field)))) = probe_out[k]

\* PP-2 evaluated on the empty profile: score 0, where an error of 0 would
\* have given 0.3
C13_Witness ==
    /\ probe_out # <<>>
    /\ probe.ind = "PP-2"
    /\ probe.choice = <<0, 0, 0>>
    /\ ProbeProfile(probe) = EmptyDict
    /\ probe_out[1].score = 0
    /\ \E pos \in 1 .. 3 :
          /\ FieldOf("PP-2", pos).name = "mean_prediction_error"
          /\ EvaluateProbe(WithChoice(probe, pos, ChoiceOf("cont", 0))).score = Weight(30)

\* the profile holds a value for the field
HasField(profile, field) ==
    field.name \in DOMAIN Get(profile, field.section, EmptyDict)

\* the value it holds
FieldValue(profile, field) == profile[field.section][field.name]

\* every boolean field false, every continuous field 0, a latency of 100 or
\* more, count-like fields not negative
IsThermostatLike(profile) ==
    \A k \in DOMAIN FIELDS :
        /\ HasField(profile, FIELDS[k])
        /\ CASE FIELDS[k].kind = "bool" -> FieldValue(profile, FIELDS[k]) = FALSE
              [] FIELDS[k].kind = "cont" -> FieldValue(profile, FIELDS[k]) = 0
              [] FIELDS[k].kind = "latency" -> FieldValue(profile, FIELDS[k]) >= 100
              [] FIELDS[k].kind = "count" -> FieldValue(profile, FIELDS[k]) >= 0

\* its count-like fields are all 0
HasZeroCounts(profile) ==
    \A k \in DOMAIN FIELDS :
        FIELDS[k].kind = "count" =>
            /\ HasField(profile, FIELDS[k])
            /\ FieldValue(profile, FIELDS[k]) = 0

\* the result at position i of engine e is lower in credence than every
\* result with two or more satisfied indicators
BelowSeveralSatisfied(e, i) ==
    \A o \in Engines :
        \A j \in DOMAIN history[o] :
            history[o][j].satisfied_count >= 2
                => history[e][i].credence < history[o][j].credence

\* C14 as stated: a profile with every boolean false, every continuous
\* field 0, a latency of at least 100 and any count-like fields that are not
\* negative has no satisfied indicator, and a credence strictly below that
\* of every profile with two or more satisfied indicators.
C14_ThermostatLowest ==
    \A e \in Engines :
        \A i \in DOMAIN history[e] :
            IsThermostatLike(calls[e][i])
                => /\ history[e][i].satisfied_count = 0
                   /\ BelowSeveralSatisfied(e, i)

\* C14 amended: the same for the profiles whose count-like fields are 0.
C14_ZeroCountThermostatLowest ==
    \A e \in Engines :
        \A i \in DOMAIN history[e] :
            (IsThermostatLike(calls[e][i]) /\ HasZeroCounts(calls[e][i]))
                => /\ history[e][i].satisfied_count = 0
                   /\ BelowSeveralSatisfied(e, i)

\* a thermostat-like profile with zero counts next to a profile with exactly
\* two satisfied indicators and no theory bonus
C14_Witness ==
    /\ Len(history["e1"]) = 1
    /\ Len(history["e2"]) = 1
    /\ IsThermostatLike(calls["e1"][1])
    /\ HasZeroCounts(calls["e1"][1])
    /\ history["e1"][1].partial_count = 1
    /\ history["e2"][1].satisfied_count = 2
    /\ TheoryBonus(history["e2"][1].theory_scores) = 0
    /\ history["e1"][1].credence > 0
    /\ history["e1"][1].credence < history["e2"][1].credence

\* the catalog's names, as the error message lists them
CatalogNames == <<"ORION-Active-Inference", "GPT-4", "C-elegans-302-neurons", "Thermostat">>

\* the last call raised an error
HasRaised(ret) == ret # <<>> /\ "raised" \in DOMAIN ret[1]

\* C15: a run_reference call for a name the catalog does not hold raises an
\* error that carries the catalog's names, and leaves the history as it was:
\* no entry is ever appended for such a name.  A run_reference call for a
\* catalog name returns, and appends, the result of assessing that catalog
\* profile on the history as it stood.
C15_RunReference ==
    [][/\ HasRaised(returned') =>
              /\ returned'[1].raised = "ValueError"
              /\ returned'[1].system \notin Range(CatalogNames)
              /\ returned'[1].available = CatalogNames
              /\ history' = history
              /\ calls' = calls
       /\ \A i \in DOMAIN calls'[RunnerEngine] :
              calls'[RunnerEngine][i] \in Range(CatalogNames) \cup {"custom"}
       /\ (/\ Len(calls'[RunnerEngine]) = Len(calls[RunnerEngine]) + 1
           /\ calls'[RunnerEngine][Len(calls'[RunnerEngine])] \in Range(CatalogNames))
              => /\ returned' = <<assess(REFERENCE_PROFILES(
                                            calls'[RunnerEngine][Len(calls'[RunnerEngine])]),
                                        history[RunnerEngine], now)>>
                 /\ history'[RunnerEngine] = Append(history[RunnerEngine], returned'[1])]_vars

\* an unknown name asked for after two assessments: the error is what came
\* back and the two entries are what the history holds
C15_Witness ==
    /\ HasRaised(returned)
    /\ returned[1].system = "HAL-9000"
    /\ Len(history[RunnerEngine]) = 2
    /\ calls[RunnerEngine][2] = "Thermostat"

\* the line of the ranking table that names the system
RowOf(ranking, name) == CHOOSE a \in DOMAIN ranking : ranking[a].system_name = name

\* C16: the report lists every system of the list it ranks, once, in the
\* order of falling credence, and systems of equal credence in the order
\* the list had them in; the rank printed is the line's position.
C16_RankedByCredence ==
    \A k \in DOMAIN probe_out :
        LET ranking == probe_out[k].report_lines.ranking
        IN  /\ Len(ranking) = Len(probe)
            /\ \A i \in DOMAIN probe :
                  \E a \in DOMAIN ranking : ranking[a].system_name = probe[i].system_name
            /\ \A a \in DOMAIN ranking : ranking[a].rank = a
            /\ \A i, j \in DOMAIN probe :
                  LET a == RowOf(ranking, probe[i].system_name)
                      b == RowOf(ranking, probe[j].system_name)
                  IN  /\ probe[i].credence > probe[j].credence => a < b
                      /\ (probe[i].credence = probe[j].credence /\ i < j) => a < b

\* four systems ranked, the first and the third of equal credence, the
\* fourth above them and the second below
C16_Witness ==
    /\ probe_out # <<>>
    /\ Len(probe) = 4
    /\ probe[1].credence = probe[3].credence
    /\ probe[4].credence > probe[1].credence
    /\ probe[2].credence < probe[1].credence
    /\ probe_out[1].report_lines.ranking[2].system_name = "S1"
    /\ probe_out[1].report_lines.ranking[3].system_name = "S3"

\* C17: an assess call on one engine leaves the history of every other
\* engine as it was, and the first entry of an engine's history is chained
\* to "GENESIS" however many entries the other engines hold by then.
C17_IndependentChains ==
    [][\A e \in Engines :
          /\ history'[e] # history[e] =>
                 \A o \in Engines \ {e} : history'[o] = history[o]
          /\ (history[e] = <<>> /\ history'[e] # <<>>) =>
                 ProofInput(history'[e][1]).prev = <<"GENESIS">>]_vars

\* the second engine assessed once, after three assessments by the first
C17_Witness ==
    /\ Len(history["e1"]) = 3
    /\ Len(history["e2"]) = 1
    /\ history["e2"][1].timestamp = 3
    /\ ProofInput(history["e2"][1]).prev = <<"GENESIS">>
    /\ ProofInput(history["e1"][3]).prev # <<"GENESIS">>

\* the terms of the battery table
Flag(w) == [form |-> "flag", weight |-> w, per |-> 1]
Scaled(w) == [form |-> "scaled", weight |-> w, per |-> 1]
Capped(d, w) == [form |-> "capped", weight |-> w, per |-> d]
Complement(w) == [form |-> "complement", weight |-> w, per |-> 1]
Below(limit, w) == [form |-> "below", weight |-> w, per |-> limit]

\* the battery table, row by row: the weight layout of the fields in the
\* order the row lists them
BatteryTable(ind) ==
    CASE ind = "RPT-1" -> <<Flag(40), Capped(10, 30), Capped(5, 30)>>
      [] ind = "RPT-2" -> <<Scaled(40), Flag(30), Capped(8, 30)>>
      [] ind = "GWT-1" -> <<Capped(10, 40), Scaled(30), Flag(30)>>
      [] ind = "GWT-2" -> <<Scaled(40), Flag(40), Below(100, 20)>>
      [] ind = "GWT-3" -> <<Scaled(40), Flag(30), Flag(30)>>
      [] ind = "HOT-1" -> <<Flag(40), Capped(5, 30), Flag(30)>>
      [] ind = "HOT-2" -> <<Scaled(35), Scaled(35), Scaled(30)>>
      [] ind = "HOT-3" -> <<Scaled(40), Flag(30), Flag(30)>>
      [] ind = "HOT-4" -> <<Scaled(40), Flag(30), Scaled(30)>>
      [] ind = "PP-1" -> <<Capped(12, 40), Flag(30), Flag(30)>>
      [] ind = "PP-2" -> <<Flag(40), Complement(30), Scaled(30)>>
      [] ind = "AST-1" -> <<Flag(40), Flag(30), Scaled(30)>>
      [] ind = "AST-2" -> <<Scaled(40), Flag(30), Scaled(30)>>

\* what a term of the table gives for the value v of its field, in 1/SCALE:
\* a flag its weight, a continuous value times the weight, a count over its
\* constant capped at the weight
TermValue(term, v) ==
    CASE term.form = "flag" -> IF v THEN (term.weight * SCALE) \div 100 ELSE 0
      [] term.form = "scaled" -> (v * term.weight * SCALE) \div 10000
      [] term.form = "capped" ->
            IF v * 100 >= term.weight * term.per
            THEN (term.weight * SCALE) \div 100
            ELSE (v * SCALE) \div term.per
      [] term.form = "complement" -> ((100 - v) * term.weight * SCALE) \div 10000
      [] term.form = "below" -> IF v < term.per THEN (term.weight * SCALE) \div 100 ELSE 0

\* the value the input p gives the field at position pos
ValueAt(p, pos) == Values(FieldOf(p.ind, pos).kind)[p.choice[pos]]

\* the three fields are set, to values of their documented domains
InDocumentedDomain(p) ==
    \A pos \in 1 .. 3 :
        /\ p.choice[pos] > 0
        /\ CASE FieldOf(p.ind, pos).kind = "bool" -> TRUE
              [] FieldOf(p.ind, pos).kind = "cont" ->
                    ValueAt(p, pos) >= 0 /\ ValueAt(p, pos) <= 100
              [] OTHER -> ValueAt(p, pos) >= 0

\* C18: for fields in their documented domains the score of an indicator is
\* the sum of the three terms of its row of the battery table, a count term
\* being the count over its constant, capped at the term's weight.
C18_ScoreIsTableRow ==
    \A k \in DOMAIN probe_out :
        InDocumentedDomain(probe) =>
            probe_out[k].score =
                TermValue(BatteryTable(probe.ind)[1], ValueAt(probe, 1))
                + TermValue(BatteryTable(probe.ind)[2], ValueAt(probe, 2))
                + TermValue(BatteryTable(probe.ind)[3], ValueAt(probe, 3))

\* RPT-1 with recurrent connections, depth 10 and 5 loops: 1.0, satisfied
C18_Witness ==
    /\ probe_out # <<>>
    /\ probe.ind = "RPT-1"
    /\ InDocumentedDomain(probe)
    /\ ValueAt(probe, 1) = TRUE
    /\ ValueAt(probe, 2) = 10
    /\ ValueAt(probe, 3) = 5
    /\ probe_out[1].score = SCALE
    /\ probe_out[1].satisfied

\* C19: every indicator of a result that is satisfied is partial too; its
\* status is SATISFIED for a score of at least 0.7, PARTIAL for a score of
\* at least 0.3 below 0.7 and NOT_SATISFIED for a score below 0.3; and
\* satisfied_count and partial_count together are the number of indicators
\* that score at least 0.3.
C19_StatusBands ==
    \A e \in Engines :
        \A i \in DOMAIN history[e] :
            LET r == history[e][i]
            IN  /\ \A k \in DOMAIN r.indicators :
                      LET ind == r.indicators[k]
                      IN  /\ ind.satisfied => ind.partial
                          /\ status(ind) = "SATISFIED" <=> ind.score * 10 >= 7 * SCALE
                          /\ status(ind) = "PARTIAL" <=>
                                (ind.score * 10 >= 3 * SCALE /\ ind.score * 10 < 7 * SCALE)
                          /\ status(ind) = "NOT_SATISFIED" <=> ind.score * 10 < 3 * SCALE
                /\ r.satisfied_count + r.partial_count
                      = Cardinality({k \in DOMAIN r.indicators :
                                        r.indicators[k].score * 10 >= 3 * SCALE})

\* a result with indicators of all three statuses
C19_Witness ==
    /\ Len(history[SharedEngine]) = 1
    /\ LET r == history[SharedEngine][1]
       IN  /\ \E k \in DOMAIN r.indicators : status(r.indicators[k]) = "SATISFIED"
           /\ \E k \in DOMAIN r.indicators : status(r.indicators[k]) = "PARTIAL"
           /\ \E k \in DOMAIN r.indicators :
                 /\ status(r.indicators[k]) = "NOT_SATISFIED"
                 /\ r.indicators[k].score < 0
           /\ r.satisfied_count >= 1
           /\ r.partial_count >= 1

\* C20: a sensitivity_analysis call leaves the indicator list it was given
\* as it was; every contribution it reports is the credence of the list
\* less the credence of the list with that one indicator's status taken
\* away, both under the theory_scores given, and is not negative; the
\* contribution of an indicator that is neither satisfied nor partial is 0.
C20_ContributionsNonNegative ==
    [][/\ agg_in' = agg_in
       /\ \A k \in DOMAIN agg_out' :
              /\ DOMAIN agg_out'[k]
                    = {agg_in.indicators[i].indicator_id : i \in DOMAIN agg_in.indicators}
              /\ \A i \in DOMAIN agg_in.indicators :
                    LET ind == agg_in.indicators[i]
                        contribution == agg_out'[k][ind.indicator_id]
                    IN  /\ contribution >= 0
                        /\ (~ind.satisfied /\ ~ind.partial) => contribution = 0
                        /\ contribution
                              = aggregate(agg_in.indicators, agg_in.theory_scores)
                                - aggregate([agg_in.indicators EXCEPT
                                                ![i] = [@ EXCEPT !.satisfied = FALSE,
                                                                 !.partial = FALSE]],
                                            agg_in.theory_scores)]_vars

\* an analysis of a list that holds a satisfied, a partial and an
\* unsatisfied indicator, under theory_scores that earn a bonus: the first
\* two contribute, the third does not
C20_Witness ==
    /\ agg_out # <<>>
    /\ TheoryBonus(agg_in.theory_scores) > 0
    /\ \E i, j, n \in DOMAIN agg_in.indicators :
          /\ agg_in.indicators[i].satisfied
          /\ agg_out[1][agg_in.indicators[i].indicator_id] > 0
          /\ ~agg_in.indicators[j].satisfied /\ agg_in.indicators[j].partial
          /\ agg_out[1][agg_in.indicators[j].indicator_id] > 0
          /\ ~agg_in.indicators[n].satisfied /\ ~agg_in.indicators[n].partial
          /\ agg_out[1][agg_in.indicators[n].indicator_id] = 0

\* the proof hash as a reader of the history recomputes it: the fields of
\* the AssessmentResult and the proof_hash of the entry before it
Recomputed(result, prev) ==
    Sha256([system |-> result.system_name,
            credence |-> result.credence,
            satisfied |-> result.satisfied_count,
            partial |-> result.partial_count,
            theories |-> result.theory_scores,
            prev |-> prev])

Recomputable(hist) ==
    \A i \in DOMAIN hist :
        hist[i].proof_hash
            = Recomputed(hist[i], IF i = 1 THEN GENESIS ELSE hist[i - 1].proof_hash)

\* C21: the system name in the proof record is the system_name of the
\* returned AssessmentResult, with or without metadata or a name in the
\* profile, so every entry's proof_hash is the hash of its own fields and
\* the proof_hash of the entry before it.
C21_ProofRecomputable == \A e \in Engines : Recomputable(history[e])

\* a profile without a name has been assessed after a named one: the
\* result is called "Unknown System", its proof record says "unknown"
C21_NamelessAssessed ==
    \E e \in Engines :
        /\ Len(calls[e]) >= 2
        /\ calls[e][1] = "Thermostat"
        /\ calls[e][2] = "nameless"
        /\ history[e][1].proof_hash = Recomputed(history[e][1], GENESIS)
        /\ history[e][2].system_name = "Unknown System"
        /\ history[e][2].proof_hash[2].system = "unknown"

\* the last call was run_all_references or comparative_report
IsReport(ret) == ret # <<>> /\ DOMAIN ret[1] \cap {"results", "report"} # {}

RECURSIVE Repeated(_, _)
\* the names k report calls assess, one after the other
Repeated(names, k) == IF k = 0 THEN <<>> ELSE Repeated(names, k - 1) \o names

\* report calls that fit a runner's history
MaxReports == MaxEntries \div Len(REFERENCE_NAMES)

\* C22: a run_all_references or comparative_report call leaves the entries
\* the runner's history held as they were and appends one entry per catalog
\* profile, in the catalog's order, each chained to the entry before it and
\* with a proof_hash no earlier entry of that history carries; so a runner
\* on which only k report calls were made holds k times the catalog size
\* entries.
C22_ReportsShareChain ==
    /\ [][IsReport(returned') =>
            LET old == history[RunnerEngine]
                new == history'[RunnerEngine]
            IN  /\ Len(new) = Len(old) + Len(REFERENCE_NAMES)
                /\ SubSeq(new, 1, Len(old)) = old
                /\ \A i \in DOMAIN REFERENCE_NAMES :
                      LET entry == new[Len(old) + i]
                      IN  /\ entry.system_name
                                = REFERENCE_PROFILES(REFERENCE_NAMES[i]).metadata.name
                          /\ ProofInput(entry).prev
                                = IF Len(old) + i = 1 THEN GENESIS
                                  ELSE new[Len(old) + i - 1].proof_hash
                          /\ \A j \in 1 .. Len(old) + i - 1 :
                                new[j].proof_hash # entry.proof_hash]_vars
    /\ [](\A k \in 0 .. MaxReports :
            calls[RunnerEngine] = Repeated(REFERENCE_NAMES, k)
                => Len(history[RunnerEngine]) = k * Len(REFERENCE_NAMES))

\* two report calls on one runner, the second a comparative_report: eight
\* entries, the thermostat at the fourth and the eighth place with two
\* different proof hashes
C22_Witness ==
    /\ IsReport(returned)
    /\ "report" \in DOMAIN returned[1]
    /\ calls[RunnerEngine] = Repeated(REFERENCE_NAMES, 2)
    /\ Len(history[RunnerEngine]) = 2 * Len(REFERENCE_NAMES)
    /\ history[RunnerEngine][4].system_name = history[RunnerEngine][8].system_name
    /\ history[RunnerEngine][4].credence = history[RunnerEngine][8].credence
    /\ history[RunnerEngine][4].proof_hash # history[RunnerEngine][8].proof_hash

====
